---- MODULE Spec2Model ----
(***************************************************************************)
(* Model of App.py, the Streamlit "Simulador Olfativo 3D".                 *)
(*                                                                         *)
(* Numbers.  Quantities of the formula are Python floats with one decimal  *)
(* in every input used here; they are kept exactly, as integers counted in *)
(* tenths of a part (1.0 part = 10).  logP is kept in hundredths.          *)
(*                                                                         *)
(* Tables.  A pandas DataFrame is a record [columns, rows]: the sequence   *)
(* of column labels and the sequence of rows, each row a function from the *)
(* column labels to cells.  A numeric cell is the one-element tuple <<v>>, *)
(* the missing value NaN is the empty tuple.                               *)
(*                                                                         *)
(* Script runs.  Streamlit reruns the whole script for every widget event  *)
(* of a session; a run touches only that session's st.session_state and    *)
(* the process-wide st.cache_data stores, so one action is one script run. *)
(***************************************************************************)
EXTENDS Integers, Sequences, FiniteSets, TLC

VARIABLES
    source,         \* the table get_mock_ingredients() serves (its cached value)
    pcaCache,       \* st.cache_data store of process_ingredients_pca
    df_ingredients, \* the caller's table, as the latest script run left it
    df_processed,   \* what the latest script run got back from the projection
    opened,         \* sessions whose first script run has happened
    session_state,  \* per session: st.session_state, a mapping from keys to values
    view,           \* per session: what the latest script run rendered
    last            \* the latest event: kind, session, inputs

vars == <<source, pcaCache, df_ingredients, df_processed, opened, session_state, view, last>>

----------------------------------------------------------------------------
(* Bounds of the exploration *)

NumSessions == 2
NumNames == 2
MaxTotal == 21
MaxRows == 4

----------------------------------------------------------------------------
(* Generic helpers *)

Min(a, b) == IF a <= b THEN a ELSE b

Range(s) == {s[i] : i \in 1..Len(s)}

RECURSIVE SumSeq(_)
SumSeq(s) == IF s = <<>> THEN 0 ELSE Head(s) + SumSeq(Tail(s))

----------------------------------------------------------------------------
(* pandas tables *)

NaN == <<>>

Num(v) == <<v>>

\* pd.DataFrame()
EmptyFrame == [columns |-> <<>>, rows |-> <<>>]

\* DataFrame.empty: true when any axis has length 0
IsEmpty(df) == Len(df.rows) = 0 \/ Len(df.columns) = 0

HasColumn(df, col) == col \in Range(df.columns)

\* df[col] = values : a new label is appended, an existing one is overwritten
SetColumn(df, col, values) ==
    [columns |-> IF HasColumn(df, col) THEN df.columns ELSE Append(df.columns, col),
     rows |-> [i \in 1..Len(df.rows) |->
                 [c \in DOMAIN df.rows[i] \cup {col} |->
                     IF c = col THEN values[i] ELSE df.rows[i][c]]]]

\* df.rename(columns = {old: new})
RenameColumn(df, old, new) ==
    [columns |-> [k \in 1..Len(df.columns) |->
                     IF df.columns[k] = old THEN new ELSE df.columns[k]],
     rows |-> [i \in 1..Len(df.rows) |->
                 [c \in (DOMAIN df.rows[i] \ {old}) \cup {new} |->
                     IF c = new THEN df.rows[i][old] ELSE df.rows[i][c]]]]

\* pd.DataFrame(data) for a dict of equally long lists
FrameOfLists(cols, data) ==
    [columns |-> cols,
     rows |-> [i \in 1..Len(data[cols[1]]) |-> [c \in Range(cols) |-> data[c][i]]]]

----------------------------------------------------------------------------
(* 2. The mock ingredient table *)

MockData ==
    [nombre |-> <<"Limoneno", "Linalool", "Vainillina", "Etil Maltol",
                  "Sándalo (Sandalore)", "Iso E Super", "Ambroxan", "Rosa Óxido",
                  "Cis-3-Hexenol", "Eugenol", "Indol", "Menta Piperita",
                  "Geraniol", "Citronelol", "Patchouli">>,
     familia_olfativa |-> <<"Cítrico", "Floral", "Gourmand", "Gourmand", "Amaderado",
                  "Amaderado", "Ámbar", "Floral", "Verde", "Especiado",
                  "Animal", "Herbal", "Floral", "Floral", "Amaderado">>,
     logp |-> <<Num(435), Num(284), Num(121), Num(135), Num(410),
                Num(550), Num(480), Num(270), Num(140), Num(227),
                Num(230), Num(280), Num(340), Num(325), Num(450)>>,
     odor_value |-> <<Num(800), Num(600), Num(1500), Num(1200), Num(300),
                Num(200), Num(400), Num(900), Num(1100), Num(700),
                Num(50), Num(850), Num(750), Num(650), Num(250)>>,
     cost |-> <<Num(10), Num(25), Num(150), Num(180), Num(450),
                Num(60), Num(800), Num(300), Num(90), Num(40),
                Num(1200), Num(30), Num(50), Num(55), Num(120)>>]

get_mock_ingredients ==
    LET df == FrameOfLists(<<"nombre", "familia_olfativa", "logp", "odor_value", "cost">>,
                           MockData)
    IN  RenameColumn(RenameColumn(df, "logp", "logP"),
                     "familia_olfativa", "Familia Olfativa")

----------------------------------------------------------------------------
(* 3. The projection *)

features_cols == <<"logP", "odor_value", "cost">>

n_components == 3

ColumnsError ==
    "El DataFrame de ingredientes no tiene las columnas necesarias (logP, odor_value, cost)."

\* df[features_cols].values : one tuple of cells per row
FeatureMatrix(df) ==
    [i \in 1..Len(df.rows) |->
        [j \in 1..Len(features_cols) |-> df.rows[i][features_cols[j]]]]

HasNaN(X) == \E i \in 1..Len(X) : \E j \in 1..Len(X[i]) : X[i][j] = NaN

\* Column sums of a matrix of numeric cells
ColSum(X, j) == SumSeq([i \in 1..Len(X) |-> X[i][j][1]])

\* Row i centred on the column means, scaled by the number of rows so that it
\* stays an integer vector: N * x[i][j] - sum_k x[k][j]
Centered(X, i) == [j \in 1..Len(X[i]) |-> Len(X) * X[i][j][1] - ColSum(X, j)]

\* The score of a centred row on the k-th principal axis.  The decomposition is
\* not evaluated: a score is kept as the term naming the axis, the centred row
\* and the number of rows it was centred over.
Score(k, X, i) == [axis |-> k, of |-> Centered(X, i), n |-> Len(X)]

\* PCA(n_components = nc).fit_transform(X) of scikit-learn: the input is
\* validated (no NaN; nc at most min(n_samples, n_features)) before anything
\* is decomposed, and a ValueError is raised otherwise.
PCA_fit_transform(X, nc) ==
    IF HasNaN(X)
      THEN [raised |-> "ValueError: Input X contains NaN", decomposed |-> FALSE, coords |-> <<>>]
    ELSE IF nc > Min(Len(X), Len(features_cols))
      THEN [raised |-> "ValueError: n_components must be between 0 and min(n_samples, n_features)",
            decomposed |-> FALSE, coords |-> <<>>]
    ELSE [raised |-> "none", decomposed |-> TRUE,
          coords |-> [i \in 1..Len(X) |-> [k \in 1..nc |-> Score(k, X, i)]]]

\* Lines 74-78: the three score columns are written into df itself, and df
\* is returned.  Nothing is written when fit_transform raised.
AssignCoords(df, pca) ==
    IF pca.raised # "none"
      THEN [ret |-> EmptyFrame, df |-> df, errors |-> <<>>, raised |-> pca.raised,
            decomposed |-> pca.decomposed]
      ELSE LET col(k) == [i \in 1..Len(pca.coords) |-> pca.coords[i][k]]
               out == SetColumn(SetColumn(SetColumn(df,
                          "Dim 1 (Olfativo)", col(1)),
                          "Dim 2 (Tonalidad)", col(2)),
                          "Dim 3 (Impacto)", col(3))
           IN  [ret |-> out, df |-> out, errors |-> <<>>, raised |-> "none",
                decomposed |-> pca.decomposed]

\* process_ingredients_pca returning its argument, not an empty table, when a
\* feature column is absent
process_ingredients_pca_returns_input(df) ==
    IF IsEmpty(df)
      THEN [ret |-> EmptyFrame, df |-> df, errors |-> <<>>, raised |-> "none",
            decomposed |-> FALSE]
    ELSE IF ~ \A j \in 1..Len(features_cols) : HasColumn(df, features_cols[j])
      THEN [ret |-> df, df |-> df, errors |-> <<ColumnsError>>, raised |-> "none",
            decomposed |-> FALSE]
    ELSE AssignCoords(df, PCA_fit_transform(FeatureMatrix(df), n_components))

\* The body of process_ingredients_pca, run on the caller's table df.
\* Result: ret, the value returned (EmptyFrame when the call raised); df, the
\* caller's table after the call; errors, the st.error messages emitted;
\* raised, the exception that left the function, or "none"; decomposed,
\* whether the decomposition was run.
process_ingredients_pca(df) ==
    IF IsEmpty(df)
      THEN [ret |-> EmptyFrame, df |-> df, errors |-> <<>>, raised |-> "none",
            decomposed |-> FALSE]
    ELSE IF ~ \A j \in 1..Len(features_cols) : HasColumn(df, features_cols[j])
      THEN [ret |-> EmptyFrame, df |-> df, errors |-> <<ColumnsError>>, raised |-> "none",
            decomposed |-> FALSE]
    ELSE AssignCoords(df, PCA_fit_transform(FeatureMatrix(df), n_components))

\* @st.cache_data around process_ingredients_pca: the store is keyed by the
\* content of the argument.  A hit returns a copy of the stored value and
\* replays the stored st.error messages without running the body; a miss runs
\* the body on the caller's object and stores what it returned; a call that
\* raises stores nothing.
CacheHit(cache, df, e) ==
    [call |-> [ret |-> e.ret, df |-> df, errors |-> e.errors, raised |-> "none",
               decomposed |-> FALSE],
     cache |-> cache, hit |-> TRUE]

CacheMiss(cache, key, r) ==
    [call |-> r,
     cache |-> IF r.raised = "none"
                 THEN cache \cup {[key |-> key, ret |-> r.ret, errors |-> r.errors]}
                 ELSE cache,
     hit |-> FALSE]

CachedProcess(cache, df) ==
    IF \E e \in cache : e.key = df
      THEN CacheHit(cache, df, CHOOSE e \in cache : e.key = df)
      ELSE CacheMiss(cache, df, process_ingredients_pca(df))

----------------------------------------------------------------------------
(* Python values *)

\* A dict: the sequence of its <<key, value>> items in insertion order
EmptyDict == <<>>

DictHas(d, k) == \E i \in 1..Len(d) : d[i][1] = k

DictGet(d, k) == d[CHOOSE i \in 1..Len(d) : d[i][1] = k][2]

\* d[k] = v : an existing key keeps its place, a new key goes last
DictSetItem(d, k, v) ==
    IF DictHas(d, k)
      THEN [i \in 1..Len(d) |-> IF d[i][1] = k THEN <<k, v>> ELSE d[i]]
      ELSE Append(d, <<k, v>>)

\* "=" * n
RECURSIVE Repeat(_, _)
Repeat(s, n) == IF n = 0 THEN "" ELSE s \o Repeat(s, n - 1)

\* f"{x}" for a float x with one decimal, x counted in tenths
FloatStr(t) ==
    IF t < 0 THEN "-" \o ToString((0 - t) \div 10) \o "." \o ToString((0 - t) % 10)
    ELSE ToString(t \div 10) \o "." \o ToString(t % 10)

\* f"{x:.2f}" for such an x
Fixed2(t) == FloatStr(t) \o "0"

----------------------------------------------------------------------------
(* 4. The page: widgets *)

\* number_input(min_value = 0.1, value = 1.0, step = 0.5), in tenths
min_value == 1
value == 10
step == 5

\* What a user may try to enter in the quantity field
TypedQuantities == {0 - value, 0, min_value, value, value + step}

\* number_input without the min_value argument
number_input_no_min == TypedQuantities

\* The values the quantity field hands to the script: the field refuses an
\* entry below min_value
number_input == {q \in TypedQuantities : q >= min_value}

\* selectbox(options = df_processed['nombre']): the options offered; the
\* exploration selects among the first NumNames of them
selectbox(df) ==
    {df.rows[i]["nombre"] : i \in 1..Min(NumNames, Len(df.rows))}

LoadError == "No se pudieron cargar o procesar los datos de ingredientes."

EmptyInfo == "Tu fórmula está vacía. Añade ingredientes desde el panel izquierdo."

NoText == "(none)"

\* What one script run shows of the page
NoView ==
    [errors |-> <<>>, exception |-> "none", form |-> FALSE, success |-> NoText,
     panel |-> "none", info |-> NoText, table |-> <<>>, metric |-> NoText,
     clear_button |-> FALSE, download |-> NoText]

\* Events of a session
Load == [kind |-> "load", nombre |-> "", cantidad |-> 0]
Add(n, q) == [kind |-> "add", nombre |-> n, cantidad |-> q]
Clear == [kind |-> "clear", nombre |-> "", cantidad |-> 0]

----------------------------------------------------------------------------
(* 4. The page: the formula designer *)

\* AddIngredient with the quantity assigned, not added, on a repeated key
AddIngredient_replace(f, ingrediente_sel, cantidad) ==
    DictSetItem(f, ingrediente_sel, cantidad)

\* The body of "if submit_button:" of add_ingredient_form
AddIngredient(f, ingrediente_sel, cantidad) ==
    IF DictHas(f, ingrediente_sel)
      THEN DictSetItem(f, ingrediente_sel, DictGet(f, ingrediente_sel) + cantidad)
      ELSE DictSetItem(f, ingrediente_sel, cantidad)

\* total_partes after the loop over formula.items()
TotalPartes(f) == SumSeq([i \in 1..Len(f) |-> f[i][2]])

\* formula_str
RECURSIVE ItemLines(_)
ItemLines(f) ==
    IF f = <<>> THEN ""
    ELSE Head(f)[1] \o ": " \o FloatStr(Head(f)[2]) \o "\n" \o ItemLines(Tail(f))

FormulaStr(f) ==
    "FÓRMULA DE PERFUME\n" \o Repeat("=", 20) \o "\n"
    \o ItemLines(f)
    \o Repeat("=", 20) \o "\n"
    \o "TOTAL: " \o Fixed2(TotalPartes(f)) \o " partes\n"

\* formula_df_data
FormulaRows(f) == [i \in 1..Len(f) |-> [Ingrediente |-> f[i][1], Cantidad |-> f[i][2]]]

\* Lines 93-94: the formula is created on a session's first run
InitFormula(ss) ==
    IF "formula" \notin DOMAIN ss THEN [formula |-> EmptyDict] ELSE ss

\* Lines 150-168: the form; on a submission the handler updates the formula
Form(ss, ev) ==
    IF ev.kind = "add"
      THEN [ss EXCEPT !.formula = AddIngredient(@, ev.nombre, ev.cantidad)]
      ELSE ss

FormView(errors, ev) ==
    [NoView EXCEPT
       !.errors = errors,
       !.form = TRUE,
       !.success = IF ev.kind = "add"
                     THEN "Añadido " \o FloatStr(ev.cantidad) \o " de " \o ev.nombre
                     ELSE NoText]

\* Lines 170-205: the panel "Fórmula Actual".  rerun: the pass ended in
\* st.rerun(), before the download button was reached.
Panel(base, ss, v, ev) ==
    IF ss.formula = EmptyDict
      THEN base @@ [ss |-> ss, rerun |-> FALSE,
                    view |-> [v EXCEPT !.panel = "empty", !.info = EmptyInfo]]
    ELSE IF ev.kind = "clear"
      THEN base @@ [ss |-> [ss EXCEPT !.formula = EmptyDict], rerun |-> TRUE,
                    view |-> [v EXCEPT !.panel = "summary",
                                       !.table = FormulaRows(ss.formula),
                                       !.metric = Fixed2(TotalPartes(ss.formula)),
                                       !.clear_button = TRUE]]
    ELSE base @@ [ss |-> ss, rerun |-> FALSE,
                  view |-> [v EXCEPT !.panel = "summary",
                                     !.table = FormulaRows(ss.formula),
                                     !.metric = Fixed2(TotalPartes(ss.formula)),
                                     !.clear_button = TRUE,
                                     !.download = FormulaStr(ss.formula)]]

\* Pass with the panel "Fórmula Actual" built before the form's handler ran
Pass_panel_first(p, ss, ev) ==
    IF p.call.raised # "none" \/ IsEmpty(p.call.ret)
      THEN [cache |-> p.cache, df_ingredients |-> p.call.df, df_processed |-> p.call.ret,
            ss |-> ss, rerun |-> FALSE, view |-> NoView]
      ELSE [Panel([cache |-> p.cache, df_ingredients |-> p.call.df,
                   df_processed |-> p.call.ret],
                  InitFormula(ss), FormView(p.call.errors, ev), ev)
              EXCEPT !.ss = Form(@, ev)]

\* Lines 86-205: one pass over the script for a session whose
\* st.session_state is ss, on event ev; p is what the cached projection gave.
\* Result: the store, the two module-level tables, ss and the page after it.
Pass(p, ss, ev) ==
    IF p.call.raised # "none"
      THEN [cache |-> p.cache, df_ingredients |-> p.call.df, df_processed |-> EmptyFrame,
            ss |-> ss, rerun |-> FALSE,
            view |-> [NoView EXCEPT !.exception = p.call.raised]]
    ELSE IF IsEmpty(p.call.ret)
      THEN [cache |-> p.cache, df_ingredients |-> p.call.df, df_processed |-> p.call.ret,
            ss |-> ss, rerun |-> FALSE,
            view |-> [NoView EXCEPT !.errors = p.call.errors \o <<LoadError>>]]
    ELSE Panel([cache |-> p.cache, df_ingredients |-> p.call.df,
                df_processed |-> p.call.ret],
               Form(InitFormula(ss), ev), FormView(p.call.errors, ev), ev)

\* The clear handler without its st.rerun()
Rerun_missing(src, r) == r

\* st.rerun(): the script is run again at once, with no widget event
Rerun(src, r) ==
    IF r.rerun THEN Pass(CachedProcess(r.cache, src), r.ss, Load) ELSE r

\* One script run of a session, up to the page it leaves on the screen
ScriptRun(cache, src, ss, ev) ==
    Rerun(src, Pass(CachedProcess(cache, src), ss, ev))

----------------------------------------------------------------------------
(* The state machine *)

Sessions == 1..NumSessions

NoEvent == [kind |-> "init", session |-> 0, nombre |-> "", cantidad |-> 0]

\* st.session_state of a session before its first run: no key
NoKeys == <<>>

\* Run with the formula kept in one module-level dict instead of
\* st.session_state: every opened session sees the session state just written
Run_shared(s, ev) ==
    LET r == ScriptRun(pcaCache, source, session_state[s], ev)
    IN  /\ pcaCache' = r.cache
        /\ df_ingredients' = r.df_ingredients
        /\ df_processed' = r.df_processed
        /\ session_state' = [t \in Sessions |->
                               IF t = s \/ t \in opened THEN r.ss ELSE session_state[t]]
        /\ view' = [view EXCEPT ![s] = r.view]
        /\ last' = [kind |-> ev.kind, session |-> s, nombre |-> ev.nombre,
                    cantidad |-> ev.cantidad]
        /\ UNCHANGED source

\* Session s runs the script on event ev
Run(s, ev) ==
    LET r == ScriptRun(pcaCache, source, session_state[s], ev)
    IN  /\ pcaCache' = r.cache
        /\ df_ingredients' = r.df_ingredients
        /\ df_processed' = r.df_processed
        /\ session_state' = [session_state EXCEPT ![s] = r.ss]
        /\ view' = [view EXCEPT ![s] = r.view]
        /\ last' = [kind |-> ev.kind, session |-> s, nombre |-> ev.nombre,
                    cantidad |-> ev.cantidad]
        /\ UNCHANGED source

\* The quantities of a formula stay within the explored range
WithinBounds(f) ==
    /\ \A i \in 1..Len(f) : f[i][2] \in (0 - value)..MaxTotal
    /\ TotalPartes(f) <= MaxTotal

\* A browser opens the page: the first script run of a new session
OpenSession(s) ==
    /\ s \notin opened
    /\ opened' = opened \cup {s}
    /\ Run(s, Load)

\* "Añadir a la Fórmula" is pressed with the form's two fields filled in
SubmitAdd(s, n, q) ==
    /\ s \in opened
    /\ view[s].form
    /\ n \in selectbox(df_processed)
    /\ q \in number_input
    /\ WithinBounds(AddIngredient(session_state[s].formula, n, q))
    /\ UNCHANGED opened
    /\ Run(s, Add(n, q))

\* The same submission with a quantity that reaches the script without having
\* passed the quantity field's min_value check
SubmitUnchecked(s, n, q) ==
    /\ s \in opened
    /\ view[s].form
    /\ n \in selectbox(df_processed)
    /\ q \in TypedQuantities
    /\ WithinBounds(AddIngredient(session_state[s].formula, n, q))
    /\ UNCHANGED opened
    /\ Run(s, Add(n, q))

\* "Limpiar Fórmula" is pressed; the button is on the page only while the
\* formula panel shows a summary
ClickClear(s) ==
    /\ s \in opened
    /\ view[s].clear_button
    /\ UNCHANGED opened
    /\ Run(s, Clear)

InitPage ==
    /\ pcaCache = {}
    /\ df_ingredients = EmptyFrame
    /\ df_processed = EmptyFrame
    /\ opened = {}
    /\ session_state = [s \in Sessions |-> NoKeys]
    /\ view = [s \in Sessions |-> NoView]
    /\ last = NoEvent

Init ==
    /\ source = get_mock_ingredients
    /\ InitPage

\* One browser session using the page
Next ==
    \/ OpenSession(1)
    \/ \E n \in selectbox(df_processed) : \E q \in number_input : SubmitAdd(1, n, q)
    \/ ClickClear(1)

Spec == Init /\ [][Next]_vars

\* The submit handler driven with quantities the field has not checked
NextUnchecked ==
    \/ OpenSession(1)
    \/ \E n \in selectbox(df_processed) : \E q \in TypedQuantities : SubmitUnchecked(1, n, q)
    \/ ClickClear(1)

SpecUnchecked == Init /\ [][NextUnchecked]_vars

\* Several browser sessions at once, each adding the field's default quantity
NextSessions ==
    \E s \in Sessions :
        \/ OpenSession(s)
        \/ \E n \in selectbox(df_processed) : SubmitAdd(s, n, value)
        \/ ClickClear(s)

SpecSessions == Init /\ [][NextSessions]_vars

----------------------------------------------------------------------------
(* The projection on arbitrary ingredient tables *)

DropColumn(df, col) ==
    [columns |-> SelectSeq(df.columns, LAMBDA c : c # col),
     rows |-> [i \in 1..Len(df.rows) |->
                 [c \in DOMAIN df.rows[i] \ {col} |-> df.rows[i][c]]]]

RECURSIVE DropColumns(_, _)
DropColumns(df, cols) ==
    IF cols = {} THEN df
    ELSE LET c == CHOOSE c \in cols : TRUE
         IN  DropColumns(DropColumn(df, c), cols \ {c})

HeadRows(df, n) == [columns |-> df.columns, rows |-> SubSeq(df.rows, 1, n)]

\* The cell of the last row in column col replaced by NaN
WithNaN(df, col) ==
    [columns |-> df.columns,
     rows |-> [i \in 1..Len(df.rows) |->
                 IF i = Len(df.rows) THEN [df.rows[i] EXCEPT ![col] = NaN]
                 ELSE df.rows[i]]]

\* Tables the projection is tried on: the first n rows of the mock table, with
\* any set of the feature columns left out and at most one missing cell
TestCatalogs ==
    LET shapes == {DropColumns(HeadRows(get_mock_ingredients, n), d) :
                      n \in 0..MaxRows, d \in SUBSET Range(features_cols)}
    IN  shapes \cup
        {WithNaN(df, c) : <<df, c>> \in
            {x \in shapes \X Range(features_cols) :
                Len(x[1].rows) > 0 /\ HasColumn(x[1], x[2])}}

InitCatalog ==
    /\ source \in TestCatalogs
    /\ InitPage

NextCatalog == \E s \in Sessions : OpenSession(s)

SpecCatalog == InitCatalog /\ [][NextCatalog]_vars

----------------------------------------------------------------------------
(* Properties: the formula accumulator *)

HasFormula(s) == "formula" \in DOMAIN session_state[s]

Stored(f, n) == IF DictHas(f, n) THEN DictGet(f, n) ELSE 0

KeyCount(f, n) == Cardinality({i \in 1..Len(f) : f[i][1] = n})

CatalogNames == {source.rows[i]["nombre"] : i \in 1..Len(source.rows)}

\* C1: from every formula a session can hold, and for every name offered, an
\* add of q1 followed by an add of q2 of the same name leaves the stored
\* quantity at its previous value (0 if absent) plus q1 + q2, under a single
\* key; and every add that has happened is held under a single key.
RepeatedAddAccumulates ==
    \A s \in Sessions : HasFormula(s) =>
        /\ \A n \in selectbox(df_processed) : \A q1 \in number_input : \A q2 \in number_input :
              LET f == session_state[s].formula
                  g == Form(Form(session_state[s], Add(n, q1)), Add(n, q2)).formula
              IN  /\ Stored(g, n) = Stored(f, n) + q1 + q2
                  /\ KeyCount(g, n) = 1
        /\ (last.kind = "add" /\ last.session = s) =>
              /\ Stored(session_state[s].formula, last.nombre) >= last.cantidad
              /\ KeyCount(session_state[s].formula, last.nombre) = 1

\* An add has just landed on an entry that already held a quantity, next to
\* another entry
RepeatedAddReached ==
    /\ last.kind = "add"
    /\ HasFormula(1)
    /\ Len(session_state[1].formula) = 2
    /\ Stored(session_state[1].formula, last.nombre) > last.cantidad

\* C2: an add of a non-positive quantity leaves the formula as it was and
\* reports no success
NonPositiveAddRejected ==
    [][(last'.kind = "add" /\ last'.cantidad <= 0) =>
          /\ session_state' = session_state
          /\ view'[last'.session].success = NoText]_vars

\* C3: every stored quantity is positive, every key is a name of the catalog,
\* and no name is a key twice
FormulaWellFormed ==
    \A s \in Sessions : HasFormula(s) =>
        LET f == session_state[s].formula
        IN  \A i \in 1..Len(f) :
              /\ f[i][2] > 0
              /\ f[i][1] \in CatalogNames
              /\ \A j \in 1..Len(f) : f[i][1] = f[j][1] => i = j

\* The smallest quantity the field accepts has just been added to a formula
\* of two ingredients
MinimumQuantityAdded ==
    /\ last.kind = "add"
    /\ last.cantidad = min_value
    /\ HasFormula(1)
    /\ Len(session_state[1].formula) = 2

RECURSIVE JoinLines(_)
JoinLines(lines) ==
    IF lines = <<>> THEN "" ELSE Head(lines) \o "\n" \o JoinLines(Tail(lines))

RECURSIVE SumOver(_, _)
SumOver(f, idx) ==
    IF idx = {} THEN 0
    ELSE LET i == CHOOSE i \in idx : TRUE IN f[i][2] + SumOver(f, idx \ {i})

ExportLines(f) ==
    <<"FÓRMULA DE PERFUME", "====================">>
    \o [i \in 1..Len(f) |-> f[i][1] \o ": " \o FloatStr(f[i][2])]
    \o <<"====================",
         "TOTAL: " \o Fixed2(SumOver(f, 1..Len(f))) \o " partes">>

\* C4: whenever a session holds a non-empty formula, the text offered for
\* download is the header, one line "<name>: <quantity>" per stored ingredient
\* in insertion order with its current quantity, the separator and the total
\* line, the total being the sum of the quantities stored now; with an empty
\* formula no text is offered.
ExportMatchesFormula ==
    \A s \in Sessions : HasFormula(s) =>
        LET f == session_state[s].formula
        IN  IF f = EmptyDict
              THEN view[s].download = NoText
              ELSE /\ view[s].panel = "summary"
                   /\ view[s].download = JoinLines(ExportLines(f))
                   /\ view[s].metric = Fixed2(SumOver(f, 1..Len(f)))

\* An add has just raised the quantity of the ingredient added first, with a
\* second ingredient already in the formula
ExportAfterRepeatedAdd ==
    /\ last.kind = "add"
    /\ HasFormula(1)
    /\ Len(session_state[1].formula) = 2
    /\ session_state[1].formula[1][1] = last.nombre
    /\ session_state[1].formula[1][2] > last.cantidad
    /\ view[1].download # NoText

\* C5 as stated: after a clear the formula is empty and the summary is an
\* empty sequence with total 0.00
ClearShowsZeroTotal ==
    last.kind = "clear" =>
        /\ session_state[last.session].formula = EmptyDict
        /\ view[last.session].table = <<>>
        /\ view[last.session].metric = "0.00"

\* C5 as amended: after a clear the formula is empty and the panel shows the
\* empty-formula notice: no table, no total, no download, and no clear button
ClearShowsEmptyNotice ==
    last.kind = "clear" =>
        /\ session_state[last.session].formula = EmptyDict
        /\ view[last.session].panel = "empty"
        /\ view[last.session].info = EmptyInfo
        /\ view[last.session].table = <<>>
        /\ view[last.session].metric = NoText
        /\ view[last.session].download = NoText
        /\ ~ view[last.session].clear_button

\* A formula has just been cleared
ClearReached ==
    /\ last.kind = "clear"
    /\ HasFormula(1)
    /\ session_state[1].formula = EmptyDict

\* C6: a script run of one session changes no other session's state or page,
\* and a session's first run leaves it with an empty formula
SessionsIsolated ==
    [][/\ \A s \in Sessions : s # last'.session =>
              /\ session_state'[s] = session_state[s]
              /\ view'[s] = view[s]
       /\ last'.kind = "load" =>
              session_state'[last'.session] = [formula |-> EmptyDict]]_vars

\* A session has just opened, empty, while another holds a formula
SessionOpensBesideFormula ==
    /\ last.kind = "load"
    /\ HasFormula(last.session)
    /\ session_state[last.session].formula = EmptyDict
    /\ \E t \in opened \ {last.session} :
          HasFormula(t) /\ session_state[t].formula # EmptyDict

----------------------------------------------------------------------------
(* Properties: the projection *)

LacksColumn(df) == \E j \in 1..Len(features_cols) : ~ HasColumn(df, features_cols[j])

\* Some record of df has no value for one of the three features
LacksFeature(df) ==
    \E i \in 1..Len(df.rows) : \E j \in 1..Len(features_cols) :
        \/ features_cols[j] \notin DOMAIN df.rows[i]
        \/ df.rows[i][features_cols[j]] = NaN

Complete(df) == Len(df.rows) >= 1 /\ ~ LacksColumn(df) /\ ~ LacksFeature(df)

DimColumns == {"Dim 1 (Olfativo)", "Dim 2 (Tonalidad)", "Dim 3 (Impacto)"}

\* C7: for an empty catalog the projection does not fail, returns no rows, and
\* what it hands to its caller differs from what it hands over for a catalog
\* with a feature column missing
EmptyCatalogDistinguished ==
    (last.kind = "load" /\ Len(source.rows) = 0) =>
        /\ view[last.session].exception = "none"
        /\ Len(df_processed.rows) = 0
        /\ \A c \in TestCatalogs :
              (Len(c.rows) > 0 /\ LacksColumn(c)) =>
                  process_ingredients_pca(c).ret # df_processed

\* C8: when a record lacks a feature the projection fails: an absent column is
\* reported by the st.error message before anything else is done, a missing
\* cell by the exception of the input validation; in both cases nothing was
\* decomposed, no row is returned, nothing was written to the caller's table
\* and the page shows no form.
MissingFeatureFails ==
    (last.kind = "load" /\ LacksFeature(source)) =>
        /\ IF LacksColumn(source)
             THEN /\ ColumnsError \in Range(view[last.session].errors)
                  /\ view[last.session].exception = "none"
             ELSE view[last.session].exception # "none"
        /\ ~ process_ingredients_pca(source).decomposed
        /\ df_processed = EmptyFrame
        /\ df_ingredients = source
        /\ ~ view[last.session].form

\* A catalog large enough to be decomposed, with a feature column absent, has
\* been projected
MissingColumnReached ==
    /\ last.kind = "load"
    /\ Len(source.rows) >= n_components
    /\ LacksColumn(source)
    /\ Cardinality(opened) = 1

\* C9: for every catalog of one or more complete records the projection
\* returns, without failing, one row per input record in the input's order,
\* each with its three coordinates
ProjectsEveryCatalog ==
    (last.kind = "load" /\ Complete(source)) =>
        /\ view[last.session].exception = "none"
        /\ Len(df_processed.rows) = Len(source.rows)
        /\ \A i \in 1..Len(source.rows) :
              /\ df_processed.rows[i]["nombre"] = source.rows[i]["nombre"]
              /\ DimColumns \subseteq DOMAIN df_processed.rows[i]

\* C10: after any script run the caller's catalog table is the table that was
\* loaded: the projection has added no column to it and altered no value
ProjectionLeavesCatalogUnchanged ==
    last.kind # "init" => df_ingredients = source

====
